---------------------------- MODULE Spec2Model ----------------------------
(***************************************************************************)
(* Model of spotify_converter.py: the text normalisation (clean_title,     *)
(* clean_artist, should_add_artist), the three input adapters and the      *)
(* run of main with its three output writes.                               *)
(*                                                                         *)
(* A Python str is a sequence of one-character strings.                    *)
(***************************************************************************)
EXTENDS Integers, Sequences, FiniteSets

VARIABLES
    pc,         \* position of main: "args", "deps", "exists", "read", "check", "batch", "info", "script", "exit"
    mode,       \* "none" | "interactive" | "csv" | "text": what args selected
    batchOnly,  \* args.batch_only
    rows,       \* every row / line the adapter has consumed so far, in input order
    songs,      \* the adapter's songs list, then main's songs
    origin,     \* origin[k]: index in rows of the input that produced songs[k]
    cleaned,    \* cleaned[k]: the adapter's artist_name when it appended songs[k]
    warned,     \* row numbers for which "No track name found, skipping" was printed
    written,    \* output files created so far
    failed,     \* output writes that raised
    exitCode,   \* -1 while running, else the process exit status
    exitWhy,    \* which sys.exit / uncaught exception / normal return ended the run
    x,          \* SpecTitle: a raw title
    once,       \* SpecTitle: clean_title(x)
    twice,      \* SpecTitle: clean_title(clean_title(x))
    tpc,        \* SpecTitle: "in" | "once" | "twice"
    ga,         \* SpecGuard: a raw artist string
    gc,         \* SpecGuard: clean_artist(ga)
    gt,         \* SpecGuard: a title
    gres,       \* SpecGuard: "True" | "False" | "IndexError" | "-"
    gpc         \* SpecGuard: "in" | "cleaned" | "called"

pipeVars  == <<pc, mode, batchOnly, rows, songs, origin, cleaned, warned, written, failed, exitCode, exitWhy>>
titleVars == <<x, once, twice, tpc>>
guardVars == <<ga, gc, gt, gres, gpc>>
vars      == <<pipeVars, titleVars, guardVars>>

-----------------------------------------------------------------------------
(* Characters and Python's str primitives                                  *)

\* str.lower() on one character (ASCII letters).
LowerOf(c) ==
    CASE c = "A" -> "a" [] c = "B" -> "b" [] c = "C" -> "c" [] c = "D" -> "d"
      [] c = "E" -> "e" [] c = "F" -> "f" [] c = "G" -> "g" [] c = "H" -> "h"
      [] c = "I" -> "i" [] c = "J" -> "j" [] c = "K" -> "k" [] c = "L" -> "l"
      [] c = "M" -> "m" [] c = "N" -> "n" [] c = "O" -> "o" [] c = "P" -> "p"
      [] c = "Q" -> "q" [] c = "R" -> "r" [] c = "S" -> "s" [] c = "T" -> "t"
      [] c = "U" -> "u" [] c = "V" -> "v" [] c = "W" -> "w" [] c = "X" -> "x"
      [] c = "Y" -> "y" [] c = "Z" -> "z" [] OTHER -> c

\* str.lower()
Lower(s) == [i \in 1..Len(s) |-> LowerOf(s[i])]

\* str.isspace() on one character; the same class is the regex \s.
IsSpace(c) == c \in {" ", "\t", "\n", "\r", "\f"}

\* The regex "." (no DOTALL): any character except a line feed.
IsDot(c) == c # "\n"

\* s[i .. j-1] consists of characters "." matches
DotRun(s, i, j) == \A k \in i..(j - 1) : IsDot(s[k])

\* The literal kw (given in lower case) matches s at position i, ignoring case.
MatchAt(s, i, kw) ==
    /\ i + Len(kw) - 1 <= Len(s)
    /\ \A k \in 1..Len(kw) : LowerOf(s[i + k - 1]) = kw[k]

\* Python's "needle in hay"
Contains(hay, needle) ==
    \E i \in 1..(Len(hay) - Len(needle) + 1) :
        \A k \in 1..Len(needle) : hay[i + k - 1] = needle[k]

\* The least element of a non-empty set of positions.
Least(S) == CHOOSE m \in S : \A n \in S : m <= n

\* str.strip()
Strip(s) ==
    LET keep == {i \in 1..Len(s) : ~IsSpace(s[i])}
    IN  IF keep = {} THEN <<>>
        ELSE SubSeq(s, Least(keep), CHOOSE m \in keep : \A n \in keep : n <= m)

\* re.sub(r'\s+', ' ', s): every maximal run of whitespace becomes one space.
RECURSIVE CollapseFrom(_, _)
CollapseFrom(s, i) ==
    IF i > Len(s) THEN <<>>
    ELSE IF IsSpace(s[i])
         THEN IF i > 1 /\ IsSpace(s[i - 1]) THEN CollapseFrom(s, i + 1)
              ELSE <<" ">> \o CollapseFrom(s, i + 1)
         ELSE <<s[i]>> \o CollapseFrom(s, i + 1)

CollapseSpaces(s) == CollapseFrom(s, 1)

-----------------------------------------------------------------------------
(* clean_title                                                             *)

KwFeat    == <<"f", "e", "a", "t", ".">>
KwFt      == <<"f", "t", ".">>
KwWith    == <<"w", "i", "t", "h">>
KwRemix   == <<"r", "e", "m", "i", "x">>
KwVersion == <<"v", "e", "r", "s", "i", "o", "n">>
KwEdit    == <<"e", "d", "i", "t">>

\* The seven removal patterns of clean_title, in the order the code applies them.
\*   "prefix":  \(KW.*?\)      "inner":  \(.*?KW.*?\)      "bracket":  \[.*?\]
TitlePatterns ==
    << [kind |-> "prefix",  kw |-> KwFeat],
       [kind |-> "prefix",  kw |-> KwFt],
       [kind |-> "prefix",  kw |-> KwWith],
       [kind |-> "inner",   kw |-> KwRemix],
       [kind |-> "inner",   kw |-> KwVersion],
       [kind |-> "inner",   kw |-> KwEdit],
       [kind |-> "bracket", kw |-> <<>>] >>

\* Lazy ".*?" followed by the literal close: the first close at or after
\* `from`, provided only "." characters lie between; 0 when there is none.
LazyClose(s, from, close) ==
    LET ends == {j \in from..Len(s) : s[j] = close}
    IN  IF ends = {} THEN 0
        ELSE IF DotRun(s, from, Least(ends)) THEN Least(ends) ELSE 0

\* Where the match of pattern p that starts at position i ends; 0 when p does
\* not match at i.
MatchEnd(s, i, p) ==
    IF p.kind = "bracket" THEN
        IF s[i] = "[" THEN LazyClose(s, i + 1, "]") ELSE 0
    ELSE IF s[i] # "(" THEN 0
    ELSE IF p.kind = "prefix" THEN
        IF MatchAt(s, i + 1, p.kw) THEN LazyClose(s, i + 1 + Len(p.kw), ")") ELSE 0
    ELSE
        LET at == {q \in (i + 1)..Len(s) : MatchAt(s, q, p.kw) /\ DotRun(s, i + 1, q)}
        IN  IF at = {} THEN 0 ELSE LazyClose(s, Least(at) + Len(p.kw), ")")

\* re.sub(pattern, '', s): the non-overlapping matches, leftmost first, removed.
RECURSIVE SubFrom(_, _, _)
SubFrom(s, i, p) ==
    IF i > Len(s) THEN <<>>
    ELSE LET j == MatchEnd(s, i, p)
         IN  IF j > 0 THEN SubFrom(s, j + 1, p)
             ELSE <<s[i]>> \o SubFrom(s, i + 1, p)

RemovePattern(s, p) == SubFrom(s, 1, p)

RECURSIVE ApplyPatterns(_, _)
ApplyPatterns(s, k) ==
    IF k > Len(TitlePatterns) THEN s
    ELSE ApplyPatterns(RemovePattern(s, TitlePatterns[k]), k + 1)


\* Mutant of clean_title: the whitespace is normalised before the patterns are
\* removed instead of after.
clean_title_spaces_first(title) == ApplyPatterns(Strip(CollapseSpaces(title)), 1)

clean_title(title) == Strip(CollapseSpaces(ApplyPatterns(title, 1)))


-----------------------------------------------------------------------------
(* clean_artist                                                            *)

\* Where a greedy ".*" that starts at position q stops: the first line feed
\* at or after q, else one past the end.
DotEnd(s, q) ==
    LET nl == {k \in q..Len(s) : s[k] = "\n"}
    IN  IF nl = {} THEN Len(s) + 1 ELSE Least(nl)

\* The regex "$" (no MULTILINE) at position e: the end of the string, or just
\* before a line feed that ends the string.
AtEnd(s, e) == e = Len(s) + 1 \/ (e = Len(s) /\ s[e] = "\n")

\* The first position of the whitespace run that ends just before p: where a
\* leading "\s*" makes the leftmost match begin.
WsStart(s, p) == Least({i \in 1..p : \A k \in i..(p - 1) : IsSpace(s[k])})

\* "[,&]\s*.*$" with the separator at c: one past the end of the match, 0 when
\* there is none.  The greedy "\s*" keeps as much whitespace as lets ".*$" match.
SepTailEnd(s, c) ==
    LET qs == {q \in (c + 1)..(Len(s) + 1) :
                  /\ \A k \in (c + 1)..(q - 1) : IsSpace(s[k])
                  /\ AtEnd(s, DotEnd(s, q))}
    IN  IF s[c] \notin {",", "&"} \/ qs = {} THEN 0
        ELSE DotEnd(s, CHOOSE q \in qs : \A r \in qs : r <= q)

\* "KW.*$" (IGNORECASE) with the keyword at p: one past the end of the match,
\* 0 when there is none.
KwTailEnd(s, p, kw) ==
    IF MatchAt(s, p, kw) /\ AtEnd(s, DotEnd(s, p + Len(kw)))
    THEN DotEnd(s, p + Len(kw)) ELSE 0

\* re.sub(r'\s*[,&]\s*.*$', '', s)
CutAtSeparator(s) ==
    LET cs == {c \in 1..Len(s) : SepTailEnd(s, c) > 0}
    IN  IF cs = {} THEN s
        ELSE SubSeq(s, 1, WsStart(s, Least(cs)) - 1)
                 \o SubSeq(s, SepTailEnd(s, Least(cs)), Len(s))

\* re.sub(r'\s*KW.*$', '', s, flags=re.IGNORECASE)
CutAtKeyword(s, kw) ==
    LET ps == {p \in 1..Len(s) : KwTailEnd(s, p, kw) > 0}
    IN  IF ps = {} THEN s
        ELSE SubSeq(s, 1, WsStart(s, Least(ps)) - 1)
                 \o SubSeq(s, KwTailEnd(s, Least(ps), kw), Len(s))


\* Mutant of clean_artist: the final strip() is missing.
clean_artist_untrimmed(artist) ==
    CutAtKeyword(CutAtKeyword(CutAtSeparator(artist), KwFeat), KwFt)

clean_artist(artist) ==
    Strip(CutAtKeyword(CutAtKeyword(CutAtSeparator(artist), KwFeat), KwFt))

-----------------------------------------------------------------------------
(* should_add_artist                                                       *)

UnknownArtist ==
    <<"U", "n", "k", "n", "o", "w", "n", " ", "A", "r", "t", "i", "s", "t">>

\* str.split() yields no word: split()[0] raises IndexError.
NoWord(s) == \A i \in 1..Len(s) : IsSpace(s[i])

\* str.split()[0], for a string with a word in it
FirstWord(s) ==
    LET b == Least({i \in 1..Len(s) : ~IsSpace(s[i])})
        e == Least({j \in b..Len(s) : j = Len(s) \/ IsSpace(s[j + 1])})
    IN  SubSeq(s, b, e)


\* Mutant of should_add_artist: artist and title are compared without lower().
should_add_artist_case_sensitive(artist, title) ==
    IF artist = <<>> \/ artist = UnknownArtist THEN "False"
    ELSE IF Contains(title, artist) THEN "False"
    ELSE IF NoWord(artist) THEN "IndexError"
    ELSE IF Len(FirstWord(artist)) > 2 /\ Contains(title, FirstWord(artist))
         THEN "False"
    ELSE "True"

\* "True" / "False": the value returned; "IndexError": the exception raised by
\* artist_lower.split()[0].
should_add_artist(artist, title) ==
    IF artist = <<>> \/ artist = UnknownArtist THEN "False"
    ELSE LET artist_lower == Lower(artist)
             title_lower  == Lower(title)
         IN  IF Contains(title_lower, artist_lower) THEN "False"
             ELSE IF NoWord(artist_lower) THEN "IndexError"
             ELSE IF Len(FirstWord(artist_lower)) > 2
                       /\ Contains(title_lower, FirstWord(artist_lower))
                  THEN "False"
             ELSE "True"

-----------------------------------------------------------------------------
(* The input adapters: what one row or line contributes                    *)

\* A song entry; NoSong stands where an outcome carries none.
NoSong == [artist |-> <<>>, title |-> <<>>, search |-> <<>>]

\* What one iteration of an adapter's loop comes to: songs.append(song) with
\* the local artist_name, "continue", an exception, or "break".
Appended(song, artist_name) == [kind |-> "song",  song |-> song,   artist_name |-> artist_name]
Skipped                     == [kind |-> "skip",  song |-> NoSong, artist_name |-> <<>>]
Raised                      == [kind |-> "raise", song |-> NoSong, artist_name |-> <<>>]
Finished                    == [kind |-> "break", song |-> NoSong, artist_name |-> <<>>]

\* A value of a csv.DictReader row: a str, or None (DictReader's restval) when
\* the row has fewer fields than the header.  A column the header lacks reads
\* as '' through row.get(key, '').
Field(s)  == [none |-> FALSE, s |-> s]
NoneField == [none |-> TRUE,  s |-> <<>>]


\* Mutant of csv_row: the artist is put in front without asking
\* should_add_artist.
csv_row_always_prefixes(row) ==
    IF row.track.none \/ row.artist.none THEN Raised
    ELSE LET track_name  == Strip(row.track.s)
             artist_name == Strip(row.artist.s)
         IN  IF track_name = <<>> THEN Skipped
             ELSE IF artist_name # <<>> THEN
                 LET a == clean_artist(artist_name)
                     t == clean_title(track_name)
                 IN  Appended([artist |-> IF a = <<>> THEN UnknownArtist ELSE a,
                               title  |-> t,
                               search |-> a \o <<" ">> \o t], a)
             ELSE
                 LET t == clean_title(track_name)
                 IN  Appended([artist |-> UnknownArtist, title |-> t, search |-> t], <<>>)

\* The body of process_csv_export's loop for one row.  None.strip() raises
\* AttributeError; so would an IndexError of should_add_artist.
csv_row(row) ==
    IF row.track.none \/ row.artist.none THEN Raised
    ELSE LET track_name  == Strip(row.track.s)
             artist_name == Strip(row.artist.s)
         IN  IF track_name = <<>> THEN Skipped
             ELSE IF artist_name # <<>> THEN
                 LET a == clean_artist(artist_name)
                     t == clean_title(track_name)
                     g == should_add_artist(a, t)
                 IN  IF g = "IndexError" THEN Raised
                     ELSE Appended([artist |-> IF a = <<>> THEN UnknownArtist ELSE a,
                                    title  |-> t,
                                    search |-> IF g = "True" THEN a \o <<" ">> \o t ELSE t], a)
             ELSE
                 LET t == clean_title(track_name)
                 IN  Appended([artist |-> UnknownArtist, title |-> t, search |-> t], <<>>)

Separator == <<" ", "-", " ">>


\* Mutant of SplitFirst: the line is split at the last separator (rsplit).
SplitLast(line) ==
    LET at == {i \in 1..Len(line) : MatchAt(line, i, Separator)}
        k  == CHOOSE i \in at : \A j \in at : j <= i
    IN  <<SubSeq(line, 1, k - 1), SubSeq(line, k + Len(Separator), Len(line))>>

\* str.split(' - ', 1): the text before and after the first separator
SplitFirst(line) ==
    LET k == Least({i \in 1..Len(line) : MatchAt(line, i, Separator)})
    IN  <<SubSeq(line, 1, k - 1), SubSeq(line, k + Len(Separator), Len(line))>>


\* Mutant of text_line: a line without separator is formatted like one with an
\* artist, "{artist_name} {track_name}" with the empty artist_name.
text_line_formats_without_artist(raw) ==
    LET line == Strip(raw)
    IN  IF line = <<>> \/ line[1] = "#" THEN Skipped
        ELSE IF Contains(line, Separator) THEN
            LET parts == SplitFirst(line)
                a == clean_artist(Strip(parts[1]))
                t == clean_title(Strip(parts[2]))
                g == should_add_artist(a, t)
            IN  IF g = "IndexError" THEN Raised
                ELSE Appended([artist |-> IF a = <<>> THEN UnknownArtist ELSE a,
                               title  |-> t,
                               search |-> IF g = "True" THEN a \o <<" ">> \o t ELSE t], a)
        ELSE
            LET t == clean_title(line)
            IN  Appended([artist |-> UnknownArtist, title |-> t,
                          search |-> <<" ">> \o t], <<>>)

\* The body of process_text_list's loop for one line of the file.
text_line(raw) ==
    LET line == Strip(raw)
    IN  IF line = <<>> \/ line[1] = "#" THEN Skipped
        ELSE IF Contains(line, Separator) THEN
            LET parts == SplitFirst(line)
                a == clean_artist(Strip(parts[1]))
                t == clean_title(Strip(parts[2]))
                g == should_add_artist(a, t)
            IN  IF g = "IndexError" THEN Raised
                ELSE Appended([artist |-> IF a = <<>> THEN UnknownArtist ELSE a,
                               title  |-> t,
                               search |-> IF g = "True" THEN a \o <<" ">> \o t ELSE t], a)
        ELSE
            LET t == clean_title(line)
            IN  Appended([artist |-> UnknownArtist, title |-> t, search |-> t], <<>>)


\* Mutant of interactive_line: a line whose cleaned title is empty is dropped.
interactive_line_drops_empty_title(raw) ==
    LET song_input == Strip(raw)
    IN  IF song_input = <<>> \/ Lower(song_input) = <<"q">> THEN Finished
        ELSE IF Contains(song_input, Separator) THEN
            LET parts == SplitFirst(song_input)
                a == clean_artist(Strip(parts[1]))
                t == clean_title(Strip(parts[2]))
                g == should_add_artist(a, t)
            IN  IF g = "IndexError" THEN Raised
                ELSE IF t = <<>> THEN Skipped
                ELSE Appended([artist |-> IF a = <<>> THEN UnknownArtist ELSE a,
                               title  |-> t,
                               search |-> IF g = "True" THEN a \o <<" ">> \o t ELSE t], a)
        ELSE
            LET t == clean_title(song_input)
            IN  IF t = <<>> THEN Skipped
                ELSE Appended([artist |-> UnknownArtist, title |-> t, search |-> t], <<>>)

\* The body of interactive_input's loop for one typed line.
interactive_line(raw) ==
    LET song_input == Strip(raw)
    IN  IF song_input = <<>> \/ Lower(song_input) = <<"q">> THEN Finished
        ELSE IF Contains(song_input, Separator) THEN
            LET parts == SplitFirst(song_input)
                a == clean_artist(Strip(parts[1]))
                t == clean_title(Strip(parts[2]))
                g == should_add_artist(a, t)
            IN  IF g = "IndexError" THEN Raised
                ELSE Appended([artist |-> IF a = <<>> THEN UnknownArtist ELSE a,
                               title  |-> t,
                               search |-> IF g = "True" THEN a \o <<" ">> \o t ELSE t], a)
        ELSE
            LET t == clean_title(song_input)
            IN  Appended([artist |-> UnknownArtist, title |-> t, search |-> t], <<>>)

-----------------------------------------------------------------------------
(* The inputs the runs draw from                                           *)

\* Rows of a CSV export, as (Artist Name(s), Track Name).
CsvRows ==
    { [artist |-> Field(<<"D", "r", "a", "k", "e">>),
       track  |-> Field(<<"H", "e", "l", "l", "o">>)],
      [artist |-> Field(<<"A", "d", "e", "l", "e", ",", " ", "S", "i", "a">>),
       track  |-> Field(<<"A", "d", "e", "l", "e", " ", "A", "d", "e", "l", "e">>)],
      [artist |-> Field(<<"N", "a", " ", "N", "a">>),
       track  |-> Field(<<"N", "a">>)],
      [artist |-> Field(<<"D", "r", "a", "k", "e">>),
       track  |-> Field(<<"(", "R", "e", "m", "i", "x", ")">>)],
      [artist |-> Field(<<>>),
       track  |-> Field(<<"(", "R", "e", "m", "i", "x", ")">>)],
      [artist |-> Field(<<>>),
       track  |-> Field(<<"H", "e", "l", "l", "o", " ", "(", "f", "e", "a", "t", ".", " ", "S", "i", "a", ")", " ", "[", "L", "i", "v", "e", "]">>)],
      [artist |-> Field(<<"D", "r", "a", "k", "e">>),
       track  |-> Field(<<" ">>)],
      [artist |-> Field(<<"D", "r", "a", "k", "e">>),
       track  |-> Field(<<>>)],
      [artist |-> NoneField,
       track  |-> Field(<<"(", "R", "e", "m", "i", "x", ")">>)],
      [artist |-> Field(<<"D", "r", "a", "k", "e">>),
       track  |-> NoneField],
      [artist |-> Field(<<"&", " ", "S", "i", "a">>),
       track  |-> Field(<<"H", "e", "l", "l", "o">>)],
      [artist |-> Field(<<"U", "n", "k", "n", "o", "w", "n", " ", "A", "r", "t", "i", "s", "t">>),
       track  |-> Field(<<"H", "e", "l", "l", "o">>)],
      [artist |-> Field(<<"P", "i", "n", "k", " ", "F", "l", "o", "y", "d">>),
       track  |-> Field(<<"P", "i", "n", "k", " ", "M", "o", "o", "n">>)],
      [artist |-> Field(<<"D", "J", " ", "X">>),
       track  |-> Field(<<"d", "j", " ", "x", " ", "l", "i", "v", "e">>)],
      [artist |-> Field(<<"D", "J", " ", "X">>),
       track  |-> Field(<<"D", "J", " ", "S", "e", "t">>)] }

\* Lines of a text file, and lines typed at the prompt.
TextLines ==
    { <<"D", "r", "a", "k", "e", " ", "-", " ", "H", "e", "l", "l", "o">>,
      <<"H", "e", "l", "l", "o">>,
      <<"D", "r", "a", "k", "e", " ", "-", " ", "O", "n", "e", " ", "-", " ", "T", "w", "o">>,
      <<"A", "d", "e", "l", "e", " ", "-", " ", "A", "d", "e", "l", "e", " ", "A", "d", "e", "l", "e">>,
      <<"N", "a", " ", "N", "a", " ", "-", " ", "N", "a">>,
      <<"D", "r", "a", "k", "e", " ", "-", " ", "(", "R", "e", "m", "i", "x", ")">>,
      <<"(", "R", "e", "m", "i", "x", ")">>,
      <<"#", " ", "n", "o", "t", "e">>,
      <<" ">>,
      <<"q">>,
      <<",", " ", "S", "i", "a", " ", "-", " ", "H", "e", "l", "l", "o">>,
      <<"D", "r", "a", "k", "e", " ", "-", " ">>,
      <<"P", "i", "n", "k", " ", "F", "l", "o", "y", "d", " ", "-", " ", "P", "i", "n", "k", " ", "M", "o", "o", "n", "\n">>,
      <<"D", "J", " ", "X", " ", "-", " ", "D", "J", " ", "S", "e", "t">>,
      <<"S", "i", "a", " ", " ", "-", " ", "H", "e", "l", "l", "o">> }

-----------------------------------------------------------------------------
(* The run of main                                                         *)

MaxRows == 2    \* rows or lines one run reads

Modes == {"none", "interactive", "csv", "text"}

\* sys.exit(code), an uncaught exception (status 1), or main returning (0)
Exit(code, why) ==
    /\ pc' = "exit"
    /\ exitCode' = code
    /\ exitWhy' = why

PipeInit ==
    /\ pc = "args"
    /\ mode = "none"
    /\ batchOnly = FALSE
    /\ rows = <<>>
    /\ songs = <<>>
    /\ origin = <<>>
    /\ cleaned = <<>>
    /\ warned = {}
    /\ written = {}
    /\ failed = {}
    /\ exitCode = -1
    /\ exitWhy = "running"

\* parse_args, then "if not args.input_file and not args.interactive".
ParseArgs(m, b) ==
    /\ pc = "args"
    /\ mode' = m
    /\ batchOnly' = b
    /\ IF m = "none" THEN Exit(1, "usage")
       ELSE pc' = "deps" /\ UNCHANGED <<exitCode, exitWhy>>
    /\ UNCHANGED <<rows, songs, origin, cleaned, warned, written, failed, titleVars, guardVars>>

\* check_and_install_dependencies (or --no-deps-check): it returns, or it
\* exits 1 when yt-dlp can be installed neither by pacman nor by pip.
CheckDependencies(ok) ==
    /\ pc = "deps"
    /\ IF ok THEN pc' = (IF mode = "interactive" THEN "read" ELSE "exists")
                  /\ UNCHANGED <<exitCode, exitWhy>>
       ELSE Exit(1, "deps")
    /\ UNCHANGED <<mode, batchOnly, rows, songs, origin, cleaned, warned, written, failed,
                   titleVars, guardVars>>

\* "if not os.path.exists(input_file)"
CheckInputFile(exists) ==
    /\ pc = "exists"
    /\ IF exists THEN pc' = "read" /\ UNCHANGED <<exitCode, exitWhy>>
       ELSE Exit(1, "file_not_found")
    /\ UNCHANGED <<mode, batchOnly, rows, songs, origin, cleaned, warned, written, failed,
                   titleVars, guardVars>>

\* open() or the reader raises (FileNotFoundError, PermissionError,
\* UnicodeDecodeError, csv.Error): both file adapters print and sys.exit(1).
ReadError ==
    /\ pc = "read"
    /\ mode \in {"csv", "text"}
    /\ Exit(1, "read_error")
    /\ UNCHANGED <<mode, batchOnly, rows, songs, origin, cleaned, warned, written, failed,
                   titleVars, guardVars>>

\* What an adapter does with the outcome of one row or line.  The file adapters
\* catch an exception of the loop body with "except Exception" and sys.exit(1)
\* ("row_error": the same handler as "read_error", reached from a row).
Consume(input, outcome, raisedWhy) ==
    /\ rows' = Append(rows, input)
    /\ IF outcome.kind = "song"
       THEN /\ songs' = Append(songs, outcome.song)
            /\ origin' = Append(origin, Len(rows) + 1)
            /\ cleaned' = Append(cleaned, outcome.artist_name)
            /\ UNCHANGED <<pc, exitCode, exitWhy>>
       ELSE /\ UNCHANGED <<songs, origin, cleaned>>
            /\ IF outcome.kind = "raise" THEN Exit(1, raisedWhy)
               ELSE IF outcome.kind = "break"
                    THEN pc' = "check" /\ UNCHANGED <<exitCode, exitWhy>>
               ELSE UNCHANGED <<pc, exitCode, exitWhy>>

\* process_csv_export: one iteration of "for row_num, row in enumerate(reader, 1)"
CsvRow(row) ==
    /\ pc = "read"
    /\ mode = "csv"
    /\ Len(rows) < MaxRows
    /\ Consume(row, csv_row(row), "row_error")
    /\ warned' = IF csv_row(row).kind = "skip" THEN warned \cup {Len(rows) + 1} ELSE warned
    /\ UNCHANGED <<mode, batchOnly, written, failed, titleVars, guardVars>>

\* process_text_list: one iteration of "for line_num, line in enumerate(file, 1)"
TextLine(line) ==
    /\ pc = "read"
    /\ mode = "text"
    /\ Len(rows) < MaxRows
    /\ Consume(line, text_line(line), "row_error")
    /\ UNCHANGED <<mode, batchOnly, warned, written, failed, titleVars, guardVars>>

\* The file adapters reach the end of the file and return songs.
EndOfFile ==
    /\ pc = "read"
    /\ mode \in {"csv", "text"}
    /\ pc' = "check"
    /\ UNCHANGED <<mode, batchOnly, rows, songs, origin, cleaned, warned, written, failed,
                   exitCode, exitWhy, titleVars, guardVars>>

\* The line that ends interactive input: empty, or "q" in either case.
IsTerminator(line) == Strip(line) = <<>> \/ Lower(Strip(line)) = <<"q">>

\* interactive_input: one iteration of "while True" that reads a line.
\* An exception of the loop body other than KeyboardInterrupt is not caught.
InteractiveLine(line) ==
    /\ pc = "read"
    /\ mode = "interactive"
    /\ Len(rows) < MaxRows \/ IsTerminator(line)
    /\ Consume(line, interactive_line(line), "uncaught")
    /\ UNCHANGED <<mode, batchOnly, warned, written, failed, titleVars, guardVars>>

\* interactive_input: Ctrl-C at the prompt, "except KeyboardInterrupt: sys.exit(0)"
InteractiveInterrupt ==
    /\ pc = "read"
    /\ mode = "interactive"
    /\ Exit(0, "cancelled")
    /\ UNCHANGED <<mode, batchOnly, rows, songs, origin, cleaned, warned, written, failed,
                   titleVars, guardVars>>

\* interactive_input: end of standard input, input() raises EOFError, uncaught
InteractiveEOF ==
    /\ pc = "read"
    /\ mode = "interactive"
    /\ Exit(1, "uncaught")
    /\ UNCHANGED <<mode, batchOnly, rows, songs, origin, cleaned, warned, written, failed,
                   titleVars, guardVars>>


\* Mutant of CheckSongs: the empty playlist is not checked for.
CheckSongsGoesOn ==
    /\ pc = "check"
    /\ pc' = "batch"
    /\ UNCHANGED <<mode, batchOnly, rows, songs, origin, cleaned, warned, written, failed,
                   exitCode, exitWhy, titleVars, guardVars>>

\* main: "if not songs: ... sys.exit(1)", then the preview and
\* generate_youtube_searches, which only compute.
CheckSongs ==
    /\ pc = "check"
    /\ IF songs = <<>> THEN Exit(1, "empty")
       ELSE pc' = "batch" /\ UNCHANGED <<exitCode, exitWhy>>
    /\ UNCHANGED <<mode, batchOnly, rows, songs, origin, cleaned, warned, written, failed,
                   titleVars, guardVars>>

\* save_yt_dlp_batch_file, the write succeeds
BatchWritten ==
    /\ written' = written \cup {"batch"}
    /\ pc' = "info"
    /\ UNCHANGED <<failed, exitCode, exitWhy>>


\* Mutant of BatchWriteFails: the failure is only reported, as
\* save_playlist_info does.
BatchWriteFailsReported ==
    /\ failed' = failed \cup {"batch"}
    /\ pc' = "info"
    /\ UNCHANGED <<written, exitCode, exitWhy>>

\* save_yt_dlp_batch_file, "except Exception: ... sys.exit(1)"
BatchWriteFails ==
    /\ failed' = failed \cup {"batch"}
    /\ Exit(1, "batch_write")
    /\ UNCHANGED written

SaveBatchFile(ok) ==
    /\ pc = "batch"
    /\ IF ok THEN BatchWritten ELSE BatchWriteFails
    /\ UNCHANGED <<mode, batchOnly, rows, songs, origin, cleaned, warned, titleVars, guardVars>>

\* main after save_playlist_info returns: create the script next, or with
\* --batch-only print and return.
AfterPlaylistInfo ==
    IF batchOnly THEN Exit(0, "done")
    ELSE pc' = "script" /\ UNCHANGED <<exitCode, exitWhy>>

\* save_playlist_info, json.dump succeeds
InfoWritten ==
    /\ written' = written \cup {"json"}
    /\ UNCHANGED failed
    /\ AfterPlaylistInfo

\* save_playlist_info, "except Exception: print(Could not save playlist info)"
InfoWriteFails ==
    /\ failed' = failed \cup {"json"}
    /\ UNCHANGED written
    /\ AfterPlaylistInfo

\* save_playlist_info: subprocess.check_output(['date']) stands before the try;
\* what it raises is not caught.
DateFails ==
    /\ Exit(1, "uncaught")
    /\ UNCHANGED <<written, failed>>

SavePlaylistInfo(outcome) ==
    /\ pc = "info"
    /\ IF outcome = "ok" THEN InfoWritten
       ELSE IF outcome = "write_fails" THEN InfoWriteFails
       ELSE DateFails
    /\ UNCHANGED <<mode, batchOnly, rows, songs, origin, cleaned, warned, titleVars, guardVars>>

\* create_download_script, write and chmod succeed; main prints and returns
ScriptWritten ==
    /\ written' = written \cup {"script"}
    /\ Exit(0, "done")
    /\ UNCHANGED failed

\* create_download_script, "except Exception: ... sys.exit(1)"
ScriptWriteFails ==
    /\ failed' = failed \cup {"script"}
    /\ Exit(1, "script_write")
    /\ UNCHANGED written

CreateDownloadScript(ok) ==
    /\ pc = "script"
    /\ IF ok THEN ScriptWritten ELSE ScriptWriteFails
    /\ UNCHANGED <<mode, batchOnly, rows, songs, origin, cleaned, warned, titleVars, guardVars>>

PipeNext ==
    \/ \E m \in Modes, b \in BOOLEAN : ParseArgs(m, b)
    \/ \E ok \in BOOLEAN : CheckDependencies(ok)
    \/ \E exists \in BOOLEAN : CheckInputFile(exists)
    \/ ReadError
    \/ \E row \in CsvRows : CsvRow(row)
    \/ \E line \in TextLines : TextLine(line)
    \/ EndOfFile
    \/ \E line \in TextLines : InteractiveLine(line)
    \/ InteractiveInterrupt
    \/ InteractiveEOF
    \/ CheckSongs
    \/ \E ok \in BOOLEAN : SaveBatchFile(ok)
    \/ \E outcome \in {"ok", "write_fails", "date_fails"} : SavePlaylistInfo(outcome)
    \/ \E ok \in BOOLEAN : CreateDownloadScript(ok)

\* The variables of the two function specifications, at rest.
TitleIdle == x = <<>> /\ once = <<>> /\ twice = <<>> /\ tpc = "idle"
GuardIdle == ga = <<>> /\ gc = <<>> /\ gt = <<>> /\ gres = "-" /\ gpc = "idle"

Init == PipeInit /\ TitleIdle /\ GuardIdle
Next == PipeNext
Spec == Init /\ [][Next]_vars

-----------------------------------------------------------------------------
(* clean_title applied twice to one raw title                              *)

MaxTitleFrags == 5    \* fragments a raw title is put together from

TitleFrags ==
    << <<"(">>,
       <<")">>,
       <<"[">>,
       <<"]">>,
       <<" ">>,
       <<"\n">>,
       <<"F", "t", ".">>,
       <<"e", "d", "i", "t">> >>

RECURSIVE Concat(_, _)
Concat(frags, picks) ==
    IF picks = <<>> THEN <<>> ELSE frags[Head(picks)] \o Concat(frags, Tail(picks))

\* Every concatenation of at most n of the fragments
Built(frags, n) ==
    {Concat(frags, picks) : picks \in UNION {[1..k -> 1..Len(frags)] : k \in 0..n}}

TitleInit ==
    /\ x \in Built(TitleFrags, MaxTitleFrags)
    /\ once = <<>>
    /\ twice = <<>>
    /\ tpc = "in"

\* once = clean_title(x)
FirstPass ==
    /\ tpc = "in"
    /\ once' = clean_title(x)
    /\ tpc' = "once"
    /\ UNCHANGED <<x, twice, pipeVars, guardVars>>

\* twice = clean_title(once)
SecondPass ==
    /\ tpc = "once"
    /\ twice' = clean_title(once)
    /\ tpc' = "twice"
    /\ UNCHANGED <<x, once, pipeVars, guardVars>>

TitleNext == FirstPass \/ SecondPass

InitTitle == PipeInit /\ TitleInit /\ GuardIdle
SpecTitle == InitTitle /\ [][TitleNext]_vars

-----------------------------------------------------------------------------
(* should_add_artist called on what clean_artist returns                   *)

MaxArtistFrags == 4    \* fragments a raw artist string is put together from

ArtistFrags ==
    << <<" ">>,
       <<",">>,
       <<"F", "t", ".">>,
       <<"N", "a">>,
       <<"P", "i", "n", "k">>,
       <<"U", "n", "k", "n", "o", "w", "n", " ", "A", "r", "t", "i", "s", "t">> >>

GuardTitles ==
    { <<>>,
      <<"n", "a">>,
      <<"P", "I", "N", "K", " ", "m", "o", "o", "n">>,
      <<"P", "i", "n", "k", " ", "N", "a", " ", "l", "i", "v", "e">>,
      <<"x", " ", "y">>,
      <<"U", "n", "k", "n", "o", "w", "n", " ", "A", "r", "t", "i", "s", "t">> }

GuardInit ==
    /\ ga \in Built(ArtistFrags, MaxArtistFrags)
    /\ gt \in GuardTitles
    /\ gc = <<>>
    /\ gres = "-"
    /\ gpc = "in"

\* gc = clean_artist(ga)
CleanArtist ==
    /\ gpc = "in"
    /\ gc' = clean_artist(ga)
    /\ gpc' = "cleaned"
    /\ UNCHANGED <<ga, gt, gres, pipeVars, titleVars>>

\* gres = should_add_artist(gc, gt), or the exception it raises
CallGuard ==
    /\ gpc = "cleaned"
    /\ gres' = should_add_artist(gc, gt)
    /\ gpc' = "called"
    /\ UNCHANGED <<ga, gc, gt, pipeVars, titleVars>>

GuardNext == CleanArtist \/ CallGuard

InitGuard == PipeInit /\ TitleIdle /\ GuardInit
SpecGuard == InitGuard /\ [][GuardNext]_vars

-----------------------------------------------------------------------------
(* Properties                                                              *)

Entries == 1..Len(songs)

\* The number of places where needle occurs in hay, overlapping ones included
Occurrences(hay, needle) ==
    Cardinality({i \in 1..(Len(hay) - Len(needle) + 1) :
                    \A k \in 1..Len(needle) : hay[i + k - 1] = needle[k]})

\* Entry k carries its artist in front of its title.
Prefixed(k) == songs[k].search = cleaned[k] \o <<" ">> \o songs[k].title

(* C1: every entry an adapter appended has search = a + " " + t when
   should_add_artist(a, t) returns true for its cleaned artist a and cleaned
   title t, and search = t otherwise (no artist supplied included). *)
C1_SearchAssembled ==
    \A k \in Entries :
        songs[k].search =
            IF should_add_artist(cleaned[k], songs[k].title) = "True"
            THEN cleaned[k] \o <<" ">> \o songs[k].title
            ELSE songs[k].title

\* One entry with the artist in front, and one with an artist but without it.
C1_Witness ==
    \E j, k \in Entries :
        /\ Prefixed(j)
        /\ cleaned[k] # <<>>
        /\ songs[k].title # <<>>
        /\ songs[k].search = songs[k].title

(* C2, as claimed: every appended entry has a non-empty search string. *)
C2_SearchNonEmpty == \A k \in Entries : songs[k].search # <<>>

(* C2, amended: an entry's search is empty exactly when its cleaned title is
   empty and its cleaned artist is empty or "Unknown Artist"; so every entry
   with a non-empty cleaned title has a non-empty search. *)
C2_SearchEmptyOnlyForEmptyTitle ==
    \A k \in Entries :
        (songs[k].search = <<>>)
            <=> (songs[k].title = <<>> /\ cleaned[k] \in {<<>>, UnknownArtist})

\* An entry with an empty search, and one whose title is empty but whose
\* search is not.
C2_Witness ==
    \E j, k \in Entries :
        /\ songs[j].search = <<>>
        /\ songs[k].title = <<>>
        /\ songs[k].search # <<>>

(* C3, as claimed: for every entry whose cleaned artist is non-empty, the
   artist occurs at most once (ignoring case, overlaps counted) in search. *)
C3_ArtistAtMostOnce ==
    \A k \in Entries :
        cleaned[k] # <<>> =>
            Occurrences(Lower(songs[k].search), Lower(cleaned[k])) <= 1

(* C3, amended: for every entry whose cleaned artist is non-empty, the artist
   is put in front only when it does not occur (ignoring case) in the cleaned
   title; when it occurs there, search is the title unchanged. *)
C3_PrefixOnlyWhenAbsent ==
    \A k \in Entries :
        cleaned[k] # <<>> =>
            IF Contains(Lower(songs[k].title), Lower(cleaned[k]))
            THEN songs[k].search = songs[k].title
            ELSE Prefixed(k) \/ songs[k].search = songs[k].title

\* An artist found in the title only when case is ignored, and left out.
C3_Witness ==
    \E k \in Entries :
        /\ cleaned[k] # <<>>
        /\ Contains(Lower(songs[k].title), Lower(cleaned[k]))
        /\ ~Contains(songs[k].title, cleaned[k])
        /\ songs[k].search = songs[k].title

(* C4, as claimed: clean_title(clean_title(x)) = clean_title(x) for every x. *)
C4_Idempotent == tpc = "twice" => twice = once

(* C4, amended: clean_title(clean_title(x)) = clean_title(x) for every x whose
   cleaned title clean_title(x) holds no "(" and no "[". *)
C4_IdempotentWithoutOpeners ==
    (tpc = "twice" /\ \A i \in 1..Len(once) : once[i] \notin {"(", "["})
        => twice = once

\* A parenthetical was removed and a plain title is left.
C4_Witness ==
    /\ tpc = "twice"
    /\ \E i \in 1..Len(x) : x[i] = "("
    /\ once = KwEdit
    /\ twice = once

(* C5, as claimed: a failure of any of the three output writes ends the run
   at that write with a non-zero exit status; no later step is performed. *)
C5_EveryWriteFailureFatal ==
    \A w \in failed : pc = "exit" /\ exitCode # 0

(* C5, amended: a failure of the batch-file write or of the script write ends
   the run at that write with exit status 1; a failure of the JSON write is
   only reported, and the run goes on to the script (or returns, with
   --batch-only) and can end with status 0. *)
C5_BatchAndScriptFailureFatal ==
    /\ "batch" \in failed =>
           pc = "exit" /\ exitCode = 1 /\ written = {} /\ failed = {"batch"}
    /\ "script" \in failed => pc = "exit" /\ exitCode = 1
    /\ ("json" \in failed /\ "script" \notin failed) =>
           \/ pc = "script" /\ exitCode = -1
           \/ pc = "exit" /\ exitCode = 0

\* The JSON write failed and the run still wrote the script and ended with 0.
C5_Witness == "json" \in failed /\ "script" \in written /\ exitCode = 0

\* The rows of a CSV run that have a Track Name, non-empty after trimming
WithTrackName ==
    {i \in 1..Len(rows) : ~rows[i].track.none /\ Strip(rows[i].track.s) # <<>>}

(* C6: process_csv_export never terminates on a row; it skips, with a warning,
   every row whose Track Name is missing or empty after trimming, and its
   playlist holds exactly one entry for each other row, in input order. *)
C6_RowsWithoutTrackNameSkipped ==
    mode = "csv" =>
        /\ exitWhy # "row_error"
        /\ warned = (1..Len(rows)) \ WithTrackName
        /\ {origin[k] : k \in Entries} = WithTrackName
        /\ \A j, k \in Entries : j < k => origin[j] < origin[k]

\* The trimmed line that entry k of a text or interactive run came from
LineOf(k) == Strip(rows[origin[k]])

\* The first place where the separator " - " occurs in line
FirstSeparator(line, i) ==
    /\ MatchAt(line, i, Separator)
    /\ \A j \in 1..(i - 1) : ~MatchAt(line, j, Separator)

(* C7, as claimed: a line with " - " is split at its first occurrence, giving
   artist = clean_artist(before) and title = clean_title(after); a line
   without it gives an entry with artist = "" and title = clean_title(line). *)
C7_LineParsed ==
    mode \in {"text", "interactive"} =>
        \A k \in Entries :
            LET line == LineOf(k)
            IN  IF Contains(line, Separator)
                THEN \E i \in 1..Len(line) :
                        /\ FirstSeparator(line, i)
                        /\ songs[k].artist = clean_artist(SubSeq(line, 1, i - 1))
                        /\ songs[k].title = clean_title(SubSeq(line, i + 3, Len(line)))
                ELSE /\ songs[k].artist = <<>>
                     /\ songs[k].title = clean_title(line)

\* The artist field of an entry: the sentinel stands for an empty artist.
Stored(artist) == IF artist = <<>> THEN UnknownArtist ELSE artist

(* C7, amended: a trimmed line with " - " is split at its first occurrence,
   giving title = clean_title(after) and artist = clean_artist(before), stored
   as "Unknown Artist" when that is empty; a trimmed line without " - " gives
   an entry with artist "Unknown Artist" and title = clean_title(line). *)
C7_LineParsedWithSentinel ==
    mode \in {"text", "interactive"} =>
        \A k \in Entries :
            LET line == LineOf(k)
            IN  IF Contains(line, Separator)
                THEN \E i \in 1..Len(line) :
                        /\ FirstSeparator(line, i)
                        /\ songs[k].artist =
                               Stored(clean_artist(SubSeq(line, 1, i - 1)))
                        /\ songs[k].title = clean_title(SubSeq(line, i + 3, Len(line)))
                ELSE /\ songs[k].artist = UnknownArtist
                     /\ songs[k].title = clean_title(line)

\* An entry from a line with two separators, and one from a line with none.
C7_Witness ==
    /\ mode \in {"text", "interactive"}
    /\ \E j, k \in Entries :
        /\ Contains(songs[j].title, Separator)
        /\ cleaned[j] # <<>>
        /\ ~Contains(LineOf(k), Separator)

\* The rule of the duplication guard, as the claim words it.
GuardSaysNo(artist, title) ==
    \/ artist = <<>>
    \/ artist = UnknownArtist
    \/ Contains(Lower(title), Lower(artist))
    \/ \E b, e \in 1..Len(artist) :
          /\ b <= e
          /\ \A i \in 1..(b - 1) : IsSpace(artist[i])
          /\ \A i \in b..e : ~IsSpace(artist[i])
          /\ e = Len(artist) \/ IsSpace(artist[e + 1])
          /\ e - b + 1 > 2
          /\ Contains(Lower(title), Lower(SubSeq(artist, b, e)))

(* C8: on every artist clean_artist returns and every title,
   should_add_artist raises nothing, and it returns false exactly when the
   artist is empty or "Unknown Artist", or the lowercased artist is in the
   lowercased title, or the artist's first word is longer than 2 characters
   and is in the lowercased title. *)
C8_GuardTotalAndByRule ==
    gpc = "called" =>
        /\ gres \in {"True", "False"}
        /\ (gres = "False") <=> GuardSaysNo(gc, gt)

\* An artist string that cleaning empties.
C8_Witness == gpc = "called" /\ ga # <<>> /\ gc = <<>> /\ gres = "False"

\* The raw title of consumed input i, trimmed; <<>> when it has none.
RawTitle(i) ==
    IF mode = "csv" THEN
        IF rows[i].track.none THEN <<>> ELSE Strip(rows[i].track.s)
    ELSE LET line == Strip(rows[i])
         IN  IF line = <<>> THEN <<>>
             ELSE IF mode = "text" /\ line[1] = "#" THEN <<>>
             ELSE IF mode = "interactive" /\ Lower(line) = <<"q">> THEN <<>>
             ELSE IF Contains(line, Separator)
                  THEN LET k == CHOOSE j \in 1..Len(line) : FirstSeparator(line, j)
                       IN  Strip(SubSeq(line, k + 3, Len(line)))
             ELSE line

\* Input i has a title that cleaning empties.
NoiseOnly(i) ==
    LET raw == RawTitle(i)
    IN  raw # <<>> /\ clean_title(raw) = <<>>

EntriesOf(i) == {k \in Entries : origin[k] = i}

(* C9, as claimed: an input whose non-empty raw title cleans to "" does not
   crash the adapter and is not dropped: exactly one entry is appended for
   it, with title "" and search "". *)
C9_EmptyTitleEmptySearch ==
    \A i \in 1..Len(rows) :
        NoiseOnly(i) =>
            /\ exitWhy # "row_error"
            /\ Cardinality(EntriesOf(i)) = 1
            /\ \A k \in EntriesOf(i) : songs[k].title = <<>> /\ songs[k].search = <<>>

(* C9, amended: an input whose non-empty raw title cleans to "" is not
   dropped: exactly one entry is appended for it, with title "", and with
   search "" when its cleaned artist is empty or "Unknown Artist" and
   search = artist + " " otherwise; except that a CSV row whose artist field
   is None ends the run with status 1 before any entry is made (C6). *)
C9_EmptyTitleKept ==
    \A i \in 1..Len(rows) :
        NoiseOnly(i) =>
            IF mode = "csv" /\ rows[i].artist.none
            THEN exitWhy = "row_error" /\ exitCode = 1 /\ EntriesOf(i) = {}
            ELSE /\ Cardinality(EntriesOf(i)) = 1
                 /\ \A k \in EntriesOf(i) :
                       /\ songs[k].title = <<>>
                       /\ songs[k].search =
                              IF cleaned[k] \in {<<>>, UnknownArtist} THEN <<>>
                              ELSE cleaned[k] \o <<" ">>

\* A title cleaned to nothing, kept, with the artist alone as its search.
C9_Witness ==
    \E i \in 1..Len(rows) :
        /\ NoiseOnly(i)
        /\ \E k \in EntriesOf(i) : cleaned[k] # <<>> /\ Prefixed(k)

\* How a run ends on an input error or an empty playlist
InputErrors == {"file_not_found", "read_error", "row_error", "empty"}

(* C10: an output file is written only after all songs have been read and
   normalized, and a run that ends with an input error or with an empty
   playlist ends with a non-zero status before any output write. *)
C10_WritesAfterReading ==
    [][ /\ written' # written =>
              /\ pc \in {"batch", "info", "script"}
              /\ songs # <<>>
              /\ songs' = songs
              /\ rows' = rows
        /\ (songs' # songs \/ rows' # rows) => pc = "read" /\ written = {}
        /\ exitWhy' \in InputErrors => exitCode' # 0 /\ written' = {}
      ]_vars

\* Rows were read, none gave a song, and the run ended before any write.
C10_Witness ==
    /\ pc = "exit"
    /\ exitWhy = "empty"
    /\ rows # <<>>
    /\ exitCode = 1
    /\ written = {}

=============================================================================
